---- MODULE Spec2Model ----
(***************************************************************************)
(* yabai-cycle-spaces (src/src/main.rs): one invocation of the program.    *)
(*                                                                         *)
(*   main: parse the arguments, query yabai for its spaces, build the      *)
(*   YabaiSpaceConfig snapshot, and for --next / --prev run                *)
(*   yabai_move_space, which issues one `yabai -m space --focus` per       *)
(*   display of the snapshot.                                              *)
(*                                                                         *)
(* Spec      models a whole invocation, one step per child process call.   *)
(* SpecQuery applies the snapshot construction of yabai_query_spaces to    *)
(*           every bounded record sequence.                                *)
(***************************************************************************)
EXTENDS Integers, Sequences, FiniteSets, TLC

(* Bounds of the model. *)
MaxSpaces == 3
MaxDisplay == 2
MaxCycleTo == 2

(* Width of usize on the targets yabai runs on (64-bit macOS). *)
UsizeBits == 64

VARIABLES
    yabai_spaces,     \* the window manager's spaces in index order: the display of each
    args,             \* Arguments: [next, prev, cycle_to]
    overflow_checks,  \* build profile: TRUE panics on integer overflow, FALSE wraps
    pc,               \* "main" | "dispatch" | "move_loop" | "exit" | "harness" | "harness_done"
    error,            \* "none", the ProgramError main returned, or the panic that ended it
    exit_code,        \* process exit status, -1 while running
    config,           \* YabaiSpaceConfig built by yabai_query_spaces
    new_space,        \* yabai_move_space's new_space (usize)
    remaining,        \* displays the loop over display_space_map has not visited yet
    issued,           \* the yabai_focus_space calls made, in order
    stdout,           \* lines printed
    query_in,         \* SpecQuery: the decoded records (all_spaces)
    query_out         \* SpecQuery: what the snapshot construction returned

vars == <<yabai_spaces, args, overflow_checks, pc, error, exit_code, config,
          new_space, remaining, issued, stdout, query_in, query_out>>

Displays == 0..MaxDisplay

-----------------------------------------------------------------------------
(* Result<_, ProgramError> *)

Ok(v) == [ok |-> TRUE, val |-> v, err |-> "none"]

Err(e) == [ok |-> FALSE, val |-> <<>>, err |-> e]

(* HashMap<u32, _> as a function on its key set. *)
EmptyMap == <<>>

Insert(m, k, v) == [x \in (DOMAIN m) \cup {k} |-> IF x = k THEN v ELSE m[x]]

EmptyConfig(focused) ==
    [display_space_map |-> EmptyMap,
     display_visible_map |-> EmptyMap,
     focused_display |-> focused]

NoConfig == EmptyConfig(0)

(* itertools exactly_one: Ok iff the iterator yields one element. *)
ExactlyOneMutant(s) == Len(s) >= 1

ExactlyOne(s) == Len(s) = 1

HasFocus(s) == s.has_focus

IsVisible(s) == s.is_visible

(* itertools group_by: maximal runs of consecutive records with equal key. *)
RECURSIVE GroupBy(_)
GroupBy(s) ==
    IF s = <<>> THEN <<>>
    ELSE LET rest == GroupBy(Tail(s))
         IN IF rest # <<>> /\ Head(rest)[1].display = Head(s).display
            THEN << <<Head(s)>> \o Head(rest) >> \o Tail(rest)
            ELSE << <<Head(s)>> >> \o rest

(* spaces.iter().map(|s| s.id).collect_vec() *)
SpaceIdsMutant(spaces) == [i \in 1..Len(spaces) |-> spaces[Len(spaces) + 1 - i].id]

SpaceIds(spaces) == [i \in 1..Len(spaces) |-> spaces[i].id]

(* The for loop over the groups, lines 108-120. *)
RECURSIVE InsertGroups(_, _)
InsertGroups(groups, cfg) ==
    IF groups = <<>> THEN Ok(cfg)
    ELSE LET spaces == Head(groups)
             display == spaces[1].display
             visible == SelectSeq(spaces, IsVisible)
         IN IF ~ExactlyOne(visible) THEN Err("YabaiConfigError")
            ELSE InsertGroups(Tail(groups),
                   [cfg EXCEPT
                      !.display_visible_map = Insert(@, display, visible[1].id),
                      !.display_space_map = Insert(@, display, SpaceIds(spaces))])

(* yabai_query_spaces from the decoded records on, lines 97-122. *)
BuildConfig(all_spaces) ==
    LET focused == SelectSeq(all_spaces, HasFocus)
    IN IF ~ExactlyOne(focused) THEN Err("YabaiConfigError")
       ELSE InsertGroups(GroupBy(all_spaces), EmptyConfig(focused[1].display))

(* yabai_query_spaces, lines 85-123: the child process may fail to run, its     *)
(* output may fail to decode.                                                   *)
QuerySpacesResult(out) ==
    CASE out.kind = "io_error" -> Err("YabayExecutionError")
      [] out.kind = "malformed" -> Err("YabaiJsonParseError")
      [] OTHER -> BuildConfig(out.spaces)

-----------------------------------------------------------------------------
(* usize arithmetic.  A usize value v >= 2^(UsizeBits-1) is written v - 2^UsizeBits, *)
(* so usize::MAX, the only such value the program produces, is written -1.           *)

RECURSIVE Pow2Mod(_, _)
Pow2Mod(bits, n) == IF bits = 0 THEN 1 % n ELSE (2 * Pow2Mod(bits - 1, n)) % n

(* x % n on usize, n > 0 *)
UsizeRem(x, n) == IF x >= 0 THEN x % n ELSE (Pow2Mod(UsizeBits, n) + (x % n)) % n

(* enum YabaiSpace *)
CmdNext == [kind |-> "Next", s |-> 0]

CmdPrevious == [kind |-> "Previous", s |-> 0]

CmdSpace(s) == [kind |-> "Space", s |-> s]

(* The match of lines 154-158.  space_index - 1 at space_index = 0 overflows:   *)
(* a panic with overflow checks, usize::MAX without.                           *)
NewSpaceMutant(cmd, space_index, checks) ==
    CASE cmd.kind = "Next" -> [panic |-> FALSE, v |-> space_index]
      [] cmd.kind = "Previous" ->
            IF space_index = 0
            THEN (IF checks THEN [panic |-> TRUE, v |-> 0] ELSE [panic |-> FALSE, v |-> -1])
            ELSE [panic |-> FALSE, v |-> space_index - 1]
      [] OTHER -> [panic |-> FALSE, v |-> cmd.s]

NewSpace(cmd, space_index, checks) ==
    CASE cmd.kind = "Next" -> [panic |-> FALSE, v |-> space_index + 1]
      [] cmd.kind = "Previous" ->
            IF space_index = 0
            THEN (IF checks THEN [panic |-> TRUE, v |-> 0] ELSE [panic |-> FALSE, v |-> -1])
            ELSE [panic |-> FALSE, v |-> space_index - 1]
      [] OTHER -> [panic |-> FALSE, v |-> cmd.s]

(* Lines 146-152: the 0-based indices of the entries equal to focused_space. *)
SpaceIndices(spaces, focused_space) ==
    SelectSeq([i \in 1..Len(spaces) |-> [i |-> i - 1, s |-> spaces[i]]],
              LAMBDA e : e.s = focused_space)

(* yabai_move_space up to the loop, lines 137-158. *)
MoveResolve(cfg, cmd, checks) ==
    IF cfg.focused_display \notin DOMAIN cfg.display_visible_map
       \/ cfg.focused_display \notin DOMAIN cfg.display_space_map
    THEN [status |-> "err", new_space |-> 0]
    ELSE LET focused_space == cfg.display_visible_map[cfg.focused_display]
             selected_display_spaces == cfg.display_space_map[cfg.focused_display]
             found == SpaceIndices(selected_display_spaces, focused_space)
         IN IF ~ExactlyOne(found) THEN [status |-> "err", new_space |-> 0]
            ELSE LET n == NewSpace(cmd, found[1].i, checks)
                 IN IF n.panic THEN [status |-> "panic", new_space |-> 0]
                    ELSE [status |-> "ok", new_space |-> n.v]

RECURSIVE SumLen(_, _)
SumLen(m, keys) ==
    IF keys = {} THEN 0
    ELSE LET k == CHOOSE x \in keys : TRUE
         IN Len(m[k]) + SumLen(m, keys \ {k})

(* Lines 161-163: the keys d + 1 looked up for d in 0..display - 1.  At display 0 *)
(* the u32 subtraction wraps to u32::MAX without overflow checks, and the range   *)
(* then covers every key from 1 up.                                               *)
PrecedingKeys(cfg, display) ==
    IF display = 0
    THEN {e \in DOMAIN cfg.display_space_map : e >= 1}
    ELSE {e \in DOMAIN cfg.display_space_map : 1 <= e /\ e <= display - 1}

(* One iteration of the loop up to the call, lines 161-167. *)
FocusTargetMutant(cfg, display, ns, checks) ==
    LET spaces == cfg.display_space_map[display]
    IN IF display = 0 /\ checks
       THEN [panic |-> "panic_u32_sub", position |-> 0, space |-> 0]
       ELSE [panic |-> "none", position |-> ns,
             space |-> SumLen(cfg.display_space_map, PrecedingKeys(cfg, display)) + ns]

FocusTarget(cfg, display, ns, checks) ==
    LET spaces == cfg.display_space_map[display]
    IN IF display = 0 /\ checks
       THEN [panic |-> "panic_u32_sub", position |-> 0, space |-> 0]
       ELSE IF Len(spaces) = 0
       THEN [panic |-> "panic_rem_zero", position |-> 0, space |-> 0]
       ELSE LET previous_spaces == SumLen(cfg.display_space_map, PrecedingKeys(cfg, display))
                position == UsizeRem(ns, Len(spaces))
            IN [panic |-> "none", position |-> position,
                space |-> previous_spaces + position]

(* yabai_focus_space, lines 125-134: Err only when the child process cannot be  *)
(* run; its exit status and output are not looked at.                           *)
FocusSpaceResultMutant(spawned) == Ok(<<>>)

FocusSpaceResult(spawned) == IF spawned THEN Ok(<<>>) ELSE Err("YabayExecutionError")

-----------------------------------------------------------------------------
(* Inputs *)

DisplaySeqs == UNION {[1..n -> Displays] : n \in 0..MaxSpaces}

IdSchemes == {"distinct", "repeated"}

SpaceId(scheme, i) == IF scheme = "distinct" THEN 10 * i ELSE 10

Records(displays, focus, visible, scheme) ==
    [i \in 1..Len(displays) |->
        [id |-> SpaceId(scheme, i), display |-> displays[i],
         has_focus |-> focus[i], is_visible |-> visible[i]]]

RecordSeqs(displays) ==
    {Records(displays, f, v, sch) :
        f \in [1..Len(displays) -> BOOLEAN],
        v \in [1..Len(displays) -> BOOLEAN],
        sch \in IdSchemes}

(* What `yabai -m query --spaces` can give back for a window manager whose spaces *)
(* lie on `displays`.                                                             *)
YabaiOutputs(displays) ==
    {[kind |-> "io_error", spaces |-> <<>>], [kind |-> "malformed", spaces |-> <<>>]}
    \cup {[kind |-> "json", spaces |-> r] : r \in RecordSeqs(displays)}

None == [some |-> FALSE, v |-> 0]

Some(n) == [some |-> TRUE, v |-> n]

(* struct Arguments with the clap group cycle-group, multiple(false). *)
Arguments ==
    {[next |-> FALSE, prev |-> FALSE, cycle_to |-> None],
     [next |-> TRUE, prev |-> FALSE, cycle_to |-> None],
     [next |-> FALSE, prev |-> TRUE, cycle_to |-> None]}
    \cup {[next |-> FALSE, prev |-> FALSE, cycle_to |-> Some(n)] : n \in 0..MaxCycleTo}

-----------------------------------------------------------------------------
(* Actions *)

Exit(code, e) == pc' = "exit" /\ exit_code' = code /\ error' = e

Init ==
    /\ yabai_spaces \in DisplaySeqs
    /\ args \in Arguments
    /\ overflow_checks \in BOOLEAN
    /\ pc = "main"
    /\ error = "none"
    /\ exit_code = -1
    /\ config = NoConfig
    /\ new_space = 0
    /\ remaining = {}
    /\ issued = <<>>
    /\ stdout = <<>>
    /\ query_in = <<>>
    /\ query_out = Err("none")

(* main, line 177 *)
QuerySpaces ==
    /\ pc = "main"
    /\ \E out \in YabaiOutputs(yabai_spaces) :
          LET r == QuerySpacesResult(out)
          IN IF r.ok
             THEN /\ config' = r.val
                  /\ pc' = "dispatch"
                  /\ UNCHANGED <<error, exit_code>>
             ELSE /\ Exit(1, r.err)
                  /\ UNCHANGED config
    /\ UNCHANGED <<yabai_spaces, args, overflow_checks, new_space, remaining, issued,
                   stdout, query_in, query_out>>

(* yabai_move_space entered from main, lines 137-158 *)
MoveBegin(cmd) ==
    LET r == MoveResolve(config, cmd, overflow_checks)
    IN /\ CASE r.status = "err" ->
                 Exit(1, "YabaiConfigError") /\ UNCHANGED <<new_space, remaining>>
            [] r.status = "panic" ->
                 Exit(101, "panic_usize_sub") /\ UNCHANGED <<new_space, remaining>>
            [] OTHER ->
                 /\ new_space' = r.new_space
                 /\ remaining' = DOMAIN config.display_space_map
                 /\ pc' = "move_loop"
                 /\ UNCHANGED <<error, exit_code>>
       /\ UNCHANGED <<yabai_spaces, args, overflow_checks, config, issued, stdout,
                      query_in, query_out>>

(* main, lines 179-180 *)
MainNext == pc = "dispatch" /\ args.next /\ MoveBegin(CmdNext)

(* main, lines 181-182 *)
MainPrev == pc = "dispatch" /\ ~args.next /\ args.prev /\ MoveBegin(CmdPrevious)

(* main, lines 183-184 *)
MainCycleTo ==
    /\ pc = "dispatch" /\ ~args.next /\ ~args.prev /\ args.cycle_to.some
    /\ stdout' = Append(stdout, [text |-> "cycle to", n |-> args.cycle_to.v])
    /\ Exit(0, "none")
    /\ UNCHANGED <<yabai_spaces, args, overflow_checks, config, new_space, remaining,
                   issued, query_in, query_out>>

(* main, lines 185-188 *)
MainNoneMutant ==
    /\ pc = "dispatch" /\ ~args.next /\ ~args.prev /\ ~args.cycle_to.some
    /\ MoveBegin(CmdNext)

MainNone ==
    /\ pc = "dispatch" /\ ~args.next /\ ~args.prev /\ ~args.cycle_to.some
    /\ Exit(0, "none")
    /\ UNCHANGED <<yabai_spaces, args, overflow_checks, config, new_space, remaining,
                   issued, stdout, query_in, query_out>>

(* One iteration of the loop of yabai_move_space, lines 160-171; the HashMap's  *)
(* iteration order is unspecified.                                              *)
MoveStep ==
    /\ pc = "move_loop"
    /\ \E display \in remaining :
          LET t == FocusTarget(config, display, new_space, overflow_checks)
          IN IF t.panic # "none"
             THEN /\ Exit(101, t.panic)
                  /\ UNCHANGED <<remaining, issued, stdout>>
             ELSE /\ stdout' = Append(stdout, [text |-> "selected space", n |-> t.space])
                  /\ \E spawned \in BOOLEAN :
                        /\ issued' = Append(issued,
                              [display |-> display, position |-> t.position,
                               space_idx |-> t.space, arg |-> t.space + 1,
                               spawned |-> spawned])
                        /\ LET r == FocusSpaceResult(spawned)
                           IN IF ~r.ok
                              THEN Exit(1, r.err) /\ UNCHANGED remaining
                              ELSE /\ remaining' = remaining \ {display}
                                   /\ IF remaining' = {}
                                      THEN Exit(0, "none")
                                      ELSE UNCHANGED <<pc, error, exit_code>>
    /\ UNCHANGED <<yabai_spaces, args, overflow_checks, config, new_space,
                   query_in, query_out>>

Next == QuerySpaces \/ MainNext \/ MainPrev \/ MainCycleTo \/ MainNone \/ MoveStep

Spec == Init /\ [][Next]_vars

(* The snapshot construction applied to every bounded record sequence. *)
InitQuery ==
    /\ \E d \in DisplaySeqs :
          \E f \in [1..Len(d) -> BOOLEAN], v \in [1..Len(d) -> BOOLEAN], sch \in IdSchemes :
             query_in = Records(d, f, v, sch)
    /\ query_out = Err("none")
    /\ pc = "harness"
    /\ yabai_spaces = <<>>
    /\ args = [next |-> FALSE, prev |-> FALSE, cycle_to |-> None]
    /\ overflow_checks = FALSE
    /\ error = "none"
    /\ exit_code = -1
    /\ config = NoConfig
    /\ new_space = 0
    /\ remaining = {}
    /\ issued = <<>>
    /\ stdout = <<>>

ApplyQuery ==
    /\ pc = "harness"
    /\ query_out' = QuerySpacesResult([kind |-> "json", spaces |-> query_in])
    /\ pc' = "harness_done"
    /\ UNCHANGED <<yabai_spaces, args, overflow_checks, error, exit_code, config,
                   new_space, remaining, issued, stdout, query_in>>

NextQuery == ApplyQuery

SpecQuery == InitQuery /\ [][NextQuery]_vars

-----------------------------------------------------------------------------
(* Properties of the snapshot construction (SpecQuery) *)

Queried == pc = "harness_done"

DisplaysOf(s) == {s[i].display : i \in 1..Len(s)}

OneFocused(s) == Cardinality({i \in 1..Len(s) : s[i].has_focus}) = 1

OneVisiblePerDisplay(s) ==
    \A d \in DisplaysOf(s) :
        Cardinality({i \in 1..Len(s) : s[i].display = d /\ s[i].is_visible}) = 1

(* Positions i..j are a maximal run of records of one display. *)
IsRun(s, i, j) ==
    /\ i <= j
    /\ \A k \in i..j : s[k].display = s[i].display
    /\ (i = 1 \/ s[i - 1].display # s[i].display)
    /\ (j = Len(s) \/ s[j + 1].display # s[i].display)

OneVisiblePerRun(s) ==
    \A i, j \in 1..Len(s) :
        IsRun(s, i, j) => Cardinality({k \in i..j : s[k].is_visible}) = 1

(* The records of display d lie next to each other. *)
ContiguousDisplay(s, d) ==
    \A i, j \in 1..Len(s) :
        (i <= j /\ s[i].display = d /\ s[j].display = d)
            => \A k \in i..j : s[k].display = d

Contiguous(s) == \A d \in DisplaysOf(s) : ContiguousDisplay(s, d)

(* The ids of the records of display d, in the order of the sequence. *)
IdsOfDisplay(s, d) ==
    LET sel == SelectSeq(s, LAMBDA r : r.display = d)
    IN [i \in 1..Len(sel) |-> sel[i].id]

IdsOfRange(s, i, j) == [k \in 1..(j - i + 1) |-> s[i + k - 1].id]

(* C1, as claimed: the query returns a snapshot exactly when one record of the     *)
(* whole sequence has has-focus and every display has exactly one is-visible       *)
(* record, and otherwise fails with YabaiConfigError.                              *)
C1_PerDisplay ==
    Queried =>
        /\ query_out.ok <=> (OneFocused(query_in) /\ OneVisiblePerDisplay(query_in))
        /\ ~query_out.ok => query_out.err = "YabaiConfigError"

(* C1, amended: the query returns a snapshot exactly when one record of the whole  *)
(* sequence has has-focus and every maximal run of consecutive records of the same *)
(* display has exactly one is-visible record; otherwise it fails with              *)
(* YabaiConfigError.  When every display's records are contiguous this is one      *)
(* is-visible record per display.                                                  *)
C1_PerRun ==
    Queried =>
        /\ query_out.ok <=> (OneFocused(query_in) /\ OneVisiblePerRun(query_in))
        /\ ~query_out.ok => query_out.err = "YabaiConfigError"
        /\ Contiguous(query_in) =>
              (query_out.ok <=> (OneFocused(query_in) /\ OneVisiblePerDisplay(query_in)))

(* A sequence accepted although one of its displays has two visible records. *)
C1_Witness ==
    /\ Queried
    /\ query_out.ok
    /\ ~OneVisiblePerDisplay(query_in)

(* C7, as claimed: in an accepted sequence, display_space_map[d] is the ids of all *)
(* records of display d in the order of the sequence.                              *)
C7_AllRecords ==
    (Queried /\ query_out.ok) =>
        \A d \in DisplaysOf(query_in) :
            /\ d \in DOMAIN query_out.val.display_space_map
            /\ query_out.val.display_space_map[d] = IdsOfDisplay(query_in, d)

(* C7, amended: in an accepted sequence the keys of display_space_map are the      *)
(* displays of the records, and display_space_map[d] is the ids, in order, of the  *)
(* last maximal run of consecutive records of d; this is the ids of all records of *)
(* d whenever the records of d are contiguous.                                     *)
C7_LastRun ==
    (Queried /\ query_out.ok) =>
        /\ DOMAIN query_out.val.display_space_map = DisplaysOf(query_in)
        /\ \A i, j \in 1..Len(query_in) :
              (/\ IsRun(query_in, i, j)
               /\ \A k \in (j + 1)..Len(query_in) : query_in[k].display # query_in[i].display)
              => query_out.val.display_space_map[query_in[i].display]
                     = IdsOfRange(query_in, i, j)
        /\ \A d \in DisplaysOf(query_in) :
              ContiguousDisplay(query_in, d)
                  => query_out.val.display_space_map[d] = IdsOfDisplay(query_in, d)

(* An accepted sequence with a display whose records are apart. *)
C7_Witness ==
    /\ Queried
    /\ query_out.ok
    /\ \E d \in DisplaysOf(query_in) : ~ContiguousDisplay(query_in, d)
    /\ \E d \in DisplaysOf(query_in) : Len(query_out.val.display_space_map[d]) >= 1

-----------------------------------------------------------------------------
(* The window manager: `yabai -m space --focus i` gives input focus to the space  *)
(* at 1-based index i and so to the display that owns it; an index no space has   *)
(* changes nothing.  The display with input focus after the calls made so far:    *)
RECURSIVE WmFocusedDisplay(_, _, _)
WmFocusedDisplay(spaces, calls, before) ==
    IF calls = <<>> THEN before
    ELSE LET c == calls[Len(calls)]
         IN IF c.spawned /\ c.arg \in 1..Len(spaces)
            THEN spaces[c.arg]
            ELSE WmFocusedDisplay(spaces, SubSeq(calls, 1, Len(calls) - 1), before)

-----------------------------------------------------------------------------
(* Properties of an invocation (Spec) *)

QueryOk == DOMAIN config.display_space_map # {}

NoneSet == ~args.next /\ ~args.prev /\ ~args.cycle_to.some

Exited == pc = "exit"

MoveSucceeded == (args.next \/ args.prev) /\ Exited /\ exit_code = 0

Count(d) == Len(config.display_space_map[d])

FocusedSpaces == config.display_space_map[config.focused_display]

(* The 0-based positions of the focused display's visible space in its list. *)
VisiblePositions ==
    {p \in 0..(Len(FocusedSpaces) - 1) :
        FocusedSpaces[p + 1] = config.display_visible_map[config.focused_display]}

(* yabai_move_space got past line 152 for the command of the arguments. *)
Resolved == QueryOk /\ pc \in {"move_loop", "exit"} /\ Cardinality(VisiblePositions) = 1

VisiblePosition == CHOOSE p \in VisiblePositions : TRUE

(* C2: in a Next move every focus command for the focused display is computed     *)
(* from position (p + 1) mod n, p the position of the visible space and n the      *)
(* number of spaces of the focused display; new_space itself is p + 1.             *)
C2_NextPosition ==
    (args.next /\ Resolved) =>
        /\ pc = "move_loop" => new_space = VisiblePosition + 1
        /\ \A i \in 1..Len(issued) :
              issued[i].display = config.focused_display
                  => issued[i].position = (VisiblePosition + 1) % Len(FocusedSpaces)

(* Next from the last of three positions resolves to position 0. *)
C2_Witness ==
    /\ args.next /\ Resolved
    /\ FocusedSpaces = <<10, 20, 30>>
    /\ VisiblePosition = 2
    /\ \E i \in 1..Len(issued) :
          issued[i].display = config.focused_display /\ issued[i].position = 0

(* C3, as claimed: a Previous move resolves p - 1 when p >= 1, and at p = 0 it     *)
(* neither aborts on the subtraction nor continues with the wrapped usize::MAX.    *)
C3_PreviousDefined ==
    (args.prev /\ QueryOk /\ pc \in {"move_loop", "exit"}
               /\ Cardinality(VisiblePositions) = 1) =>
        IF VisiblePosition >= 1
        THEN new_space = VisiblePosition - 1
        ELSE error # "panic_usize_sub" /\ new_space >= 0

(* C4, as claimed: --cycle-to n on a valid snapshot issues a focus command for     *)
(* position n of the focused display.                                              *)
C4_CycleToFocuses ==
    (args.cycle_to.some /\ QueryOk /\ Exited) =>
        \E i \in 1..Len(issued) :
            /\ issued[i].display = config.focused_display
            /\ issued[i].position = args.cycle_to.v

(* C5, as claimed: with no flag set no focus command is issued and the exit        *)
(* status is 0, whatever the query gave.                                           *)
C5_NoneAlwaysZero ==
    NoneSet => (issued = <<>> /\ (Exited => exit_code = 0))

(* C5, amended: with no flag set no focus command is issued, whatever the query    *)
(* gave; the exit status is 0 when the query returned a snapshot, and when the     *)
(* query failed (yabai could not be run, its output did not decode, or the records *)
(* break the focus/visibility cardinality) the exit status is 1 with that error.   *)
C5_NoneNoFocus ==
    NoneSet =>
        /\ issued = <<>>
        /\ Exited =>
              IF QueryOk
              THEN exit_code = 0 /\ error = "none"
              ELSE /\ exit_code = 1
                   /\ error \in {"YabayExecutionError", "YabaiJsonParseError",
                                 "YabaiConfigError"}

(* No flag set, a snapshot of two displays, exit status 0. *)
C5_Witness ==
    /\ NoneSet /\ Exited /\ exit_code = 0
    /\ Cardinality(DOMAIN config.display_space_map) = 2

(* C6: a focus command that failed is the last one issued, ends the invocation     *)
(* with YabayExecutionError and exit status 1, and no display is sent a second     *)
(* command (no retry, no undo).                                                    *)
C6_FailureIsFatal ==
    /\ \A i \in 1..Len(issued) :
          ~issued[i].spawned =>
              /\ i = Len(issued)
              /\ Exited /\ exit_code = 1 /\ error = "YabayExecutionError"
    /\ \A i, j \in 1..Len(issued) : i # j => issued[i].display # issued[j].display

(* The second focus command failed while a third display was still to come. *)
C6_Witness ==
    /\ Len(issued) = 2
    /\ issued[1].spawned /\ ~issued[2].spawned
    /\ Cardinality(DOMAIN config.display_space_map) = 3

(* The space counts of the snapshot's displays with a smaller identifier. *)
RECURSIVE SmallerCount(_)
SmallerCount(d) ==
    IF d = 0 THEN 0
    ELSE SmallerCount(d - 1)
         + (IF d - 1 \in DOMAIN config.display_space_map THEN Count(d - 1) ELSE 0)

(* C8, as claimed: a successful Next or Previous move issues exactly one focus     *)
(* command per display d of the snapshot, with 1-based index (space counts of the  *)
(* displays with identifier smaller than d) + (new_space mod count of d) + 1.      *)
(* Stated for the moves whose new_space did not wrap.                              *)
C8_OnePerDisplay ==
    (MoveSucceeded /\ new_space >= 0) =>
        /\ Len(issued) = Cardinality(DOMAIN config.display_space_map)
        /\ \A d \in DOMAIN config.display_space_map :
              \E i \in 1..Len(issued) :
                  /\ issued[i].display = d
                  /\ issued[i].arg = SmallerCount(d) + UsizeRem(new_space, Count(d)) + 1

(* C9, as claimed: after a move whose focus commands all succeeded, input focus    *)
(* is on the display that was focused in the snapshot, whatever the order of the   *)
(* commands.  Stated for the moves in which no subtraction wrapped: display        *)
(* identifiers from 1 up and new_space not usize::MAX.                             *)
C9_FocusStays ==
    (MoveSucceeded /\ new_space >= 0 /\ 0 \notin DOMAIN config.display_space_map) =>
        WmFocusedDisplay(yabai_spaces, issued, config.focused_display)
            = config.focused_display

(* C10: when the displays of the snapshot are 1..k, every target computed lies in  *)
(* its display's own block of global indices, and no display has zero spaces, so   *)
(* the remainder never divides by zero.                                            *)
C10_TargetInBlock ==
    /\ error # "panic_rem_zero"
    /\ \A d \in DOMAIN config.display_space_map : Count(d) >= 1
    /\ (QueryOk /\ DOMAIN config.display_space_map
                      = 1..Cardinality(DOMAIN config.display_space_map)) =>
          \A i \in 1..Len(issued) :
              /\ SmallerCount(issued[i].display) <= issued[i].space_idx
              /\ issued[i].space_idx
                    <= SmallerCount(issued[i].display) + Count(issued[i].display) - 1

(* Displays 1 and 2, new_space beyond the last position of display 2. *)
C10_Witness ==
    /\ DOMAIN config.display_space_map = {1, 2}
    /\ new_space >= Count(2)
    /\ \E i \in 1..Len(issued) : issued[i].display = 2

====
